---- MODULE Spec2Model ----
(***************************************************************************)
(* ImgZap: the batch image converter.  The model covers the App state of   *)
(* src/main.rs (the image list and the target-format toggles) and the      *)
(* conversion engine of src/convert.rs: the dispatcher image_to_other and  *)
(* the codec paths ico_to_other, svg_to_other, other_to_other,             *)
(* other_to_svg and other_to_icon, acting on a small file system.          *)
(***************************************************************************)
EXTENDS Integers, Sequences, FiniteSets, Bags, TLC

VARIABLES
    fs,                  \* the disk: path -> file content, or NoFile
    images,              \* App.images: path -> (format, is_check), or NoEntry
    convert_img_format,  \* App.convert_img_format: format -> bool
    pc,                  \* "idle", "batch" (inside image_to_other), "done", "panicked"
    imgTodo,             \* image_to_other: entries the outer iterator has not yielded yet
    cur,                 \* image_to_other: the entry of the running outer closure, or NoPath
    fmtTodo,             \* image_to_other: formats the inner iterator has not yielded yet
    faults,              \* number of library/IO failures the environment injected so far
    executed,            \* history: bag of (path, format) pairs handed to a codec path
    results,             \* history: one record per job that ran
    logged,              \* history: the lines println! wrote, as (path, format, detail)
    sizes,               \* other_to_icon: the size list of the running call
    srcColor,            \* other_to_icon: image.color() of the source image
    taskDone,            \* other_to_icon: per-size task results in completion order
    frames,              \* other_to_icon: the collected Vec<IcoFrame>
    container,           \* other_to_icon: what IcoEncoder wrote, or <<>>
    icoPc,               \* other_to_icon: "off", "map", "collected", "written", "failed", "panicked"
    canvas,              \* svg_to_other: the size argument
    pixmap,              \* svg_to_other: the tiny_skia::Pixmap after resvg::render
    buffer,              \* svg_to_other: the bytes of the RgbaImage
    written,             \* svg_to_other: per chunk index, how often the closure wrote it
    pixPc                \* svg_to_other: "off", "new", "fill", "filled", "failed"

vars == <<fs, images, convert_img_format, pc, imgTodo, cur,
          fmtTodo, faults, executed, results, logged,
          sizes, srcColor, taskDone, frames, container, icoPc,
          canvas, pixmap, buffer, written, pixPc>>

appVars  == <<images, convert_img_format>>
histVars == <<executed, results, logged>>
iconVars == <<sizes, srcColor, taskDone, frames, container, icoPc>>
pixVars  == <<canvas, pixmap, buffer, written, pixPc>>

----------------------------------------------------------------------------
(* Bounds of the model.                                                    *)

MaxTargets == 2      \* at most this many target formats are enabled at once
MaxFaults  == 1      \* at most this many injected library/IO failures per batch
MaxEntries == 2      \* icon directories of the fixtures have at most this many entries
MaxSizes   == 3      \* length of the arbitrary size lists tried besides the default ladder
MaxCanvas  == 2      \* largest canvas side whose pixel loop is unfolded chunk by chunk

----------------------------------------------------------------------------
(* Format registry: enum ImageFormatExt and its methods.                   *)

ImageFormatExt == {"Png", "Jpeg", "WebP", "Tiff", "Bmp", "Ico", "Avif", "Svg"}

get_all == [f \in ImageFormatExt |-> FALSE]

NoFormat == "NoFormat"

get_format_from_mime(mime) ==
    CASE mime = "image/png"                -> "Png"
      [] mime = "image/jpeg"               -> "Jpeg"
      [] mime = "image/bmp"                -> "Bmp"
      [] mime = "image/svg+xml"            -> "Svg"
      [] mime = "image/x-icon"             -> "Ico"
      [] mime = "image/vnd.microsoft.icon" -> "Ico"
      [] mime = "image/tiff"               -> "Tiff"
      [] mime = "image/webp"               -> "WebP"
      [] mime = "image/avif"               -> "Avif"
      [] OTHER                             -> NoFormat

get_name(f) ==
    CASE f = "Png"  -> "PNG"
      [] f = "Jpeg" -> "JPEG"
      [] f = "WebP" -> "WEBP"
      [] f = "Tiff" -> "TIFF"
      [] f = "Bmp"  -> "BMP"
      [] f = "Ico"  -> "ICO"
      [] f = "Avif" -> "AVIF"
      [] f = "Svg"  -> "SVG"

\* str::to_lowercase on the names get_name returns
to_lowercase(s) ==
    CASE s = "PNG"  -> "png"
      [] s = "JPEG" -> "jpeg"
      [] s = "WEBP" -> "webp"
      [] s = "TIFF" -> "tiff"
      [] s = "BMP"  -> "bmp"
      [] s = "ICO"  -> "ico"
      [] s = "AVIF" -> "avif"
      [] s = "SVG"  -> "svg"
      [] OTHER      -> s

get_ext(f) == to_lowercase(get_name(f))

\* a table that has no generic encoder for AVIF
get_format_without_avif(f) ==
    CASE f = "Png"  -> "Png"
      [] f = "Jpeg" -> "Jpeg"
      [] f = "WebP" -> "WebP"
      [] f = "Tiff" -> "Tiff"
      [] f = "Bmp"  -> "Bmp"
      [] OTHER      -> NoFormat

\* image::ImageFormat, or NoFormat for None
get_format(f) ==
    CASE f = "Png"  -> "Png"
      [] f = "Jpeg" -> "Jpeg"
      [] f = "WebP" -> "WebP"
      [] f = "Tiff" -> "Tiff"
      [] f = "Bmp"  -> "Bmp"
      [] f = "Avif" -> "Avif"
      [] f = "Ico"  -> NoFormat
      [] f = "Svg"  -> NoFormat

----------------------------------------------------------------------------
(* Paths.  A path is the sequence of the dot-separated pieces of its file  *)
(* name (all files live in one directory): "a.png" is <<"a", "png">>.      *)

\* Path::extension is None when the name has no dot, or only a leading one
has_extension(p) == Len(p) >= 2 /\ ~(Len(p) = 2 /\ p[1] = "")

file_stem(p) == IF has_extension(p) THEN SubSeq(p, 1, Len(p) - 1) ELSE p

\* Path::with_extension: the stem, then the new extension
with_extension(p, ext) == IF ext = "" THEN file_stem(p) ELSE Append(file_stem(p), ext)

----------------------------------------------------------------------------
(* Files.  A file is what the codecs can observe of its bytes: the MIME    *)
(* type content sniffing reports, whether the bytes decode, the decoded    *)
(* colour type and dimensions, and for an icon container its directory.    *)

NoFile == [exists |-> FALSE, mime |-> "", valid |-> FALSE, color |-> "",
           width |-> 0, height |-> 0, entries |-> <<>>]

Raster(mime, color, w, h) ==
    [exists |-> TRUE, mime |-> mime, valid |-> TRUE, color |-> color,
     width |-> w, height |-> h, entries |-> <<>>]

\* an icon directory entry as stored: one byte per dimension, 0 standing for 256
DirEntry(w, h) == [wbyte |-> w % 256, hbyte |-> h % 256, ok |-> TRUE]

IconFile(mime, dir) ==
    [exists |-> TRUE, mime |-> mime, valid |-> TRUE, color |-> "Rgba8",
     width |-> 0, height |-> 0, entries |-> dir]

SvgFile(w, h) ==
    [exists |-> TRUE, mime |-> "image/svg+xml", valid |-> TRUE, color |-> "",
     width |-> w, height |-> h, entries |-> <<>>]

Corrupt(mime) ==
    [exists |-> TRUE, mime |-> mime, valid |-> FALSE, color |-> "",
     width |-> 0, height |-> 0, entries |-> <<>>]

\* a file that File::create truncated and nobody finished writing
Truncated == Corrupt("application/octet-stream")

MimeOf(f) ==
    CASE f = "Png"  -> "image/png"
      [] f = "Jpeg" -> "image/jpeg"
      [] f = "WebP" -> "image/webp"
      [] f = "Tiff" -> "image/tiff"
      [] f = "Bmp"  -> "image/bmp"
      [] f = "Avif" -> "image/avif"
      [] f = "Ico"  -> "image/vnd.microsoft.icon"
      [] f = "Svg"  -> "image/svg+xml"

\* ColorType::bytes_per_pixel and the channel count
bytes_per_pixel(c) ==
    CASE c = "L8" -> 1 [] c = "Rgb8" -> 3 [] c = "Rgba8" -> 4 [] OTHER -> 0

channel_count(c) ==
    CASE c = "L8" -> 1 [] c = "Rgb8" -> 3 [] c = "Rgba8" -> 4 [] OTHER -> 0

\* DynamicImage::to_rgb8 / to_rgba8 keep the dimensions and change the layout
to_rgb8(img)  == [img EXCEPT !.color = "Rgb8"]
to_rgba8(img) == [img EXCEPT !.color = "Rgba8"]

Image(c, w, h) == [color |-> c, width |-> w, height |-> h]

\* DynamicImage::resize_exact
resize_exact(img, w, h) == [img EXCEPT !.width = w, !.height = h]

\* the steps at which the environment can make a library or IO call fail
FaultSteps == {"decode", "create", "encode", "trace", "write"}
NoFault == "none"

\* what one codec call reports back; enc names the final encode step reached
Outcome(res, detail, fsys, created, enc, encFmt, encColor, w, h) ==
    [res |-> res, detail |-> detail, fs |-> fsys, created |-> created,
     enc |-> enc, encFmt |-> encFmt, encColor |-> encColor,
     width |-> w, height |-> h]

Put(fsys, p, file) == [fsys EXCEPT ![p] = file]

\* the colour layouts the JPEG encoder takes; every other encoder takes all three
EncoderAccepts(format, c) == format = "Jpeg" => c \in {"L8", "Rgb8"}

\* DynamicImage::save_with_format / write_to: create the file, then encode
save_with_format(fsys, img, out, format, fault) ==
    IF fault = "create"
    THEN Outcome("Err", "create", fsys, FALSE, "none", format, img.color, 0, 0)
    ELSE IF fault = "encode" \/ ~EncoderAccepts(format, img.color)
    THEN Outcome("Err", "encode", Put(fsys, out, Truncated), TRUE,
                 "raster", format, img.color, 0, 0)
    ELSE Outcome("Ok", "", Put(fsys, out, Raster(MimeOf(format), img.color, img.width, img.height)),
                 TRUE, "raster", format, img.color, img.width, img.height)

----------------------------------------------------------------------------
(* Icon codec, encode side: other_to_icon.                                 *)

\* a ladder that stops short of the 256 pixel frame
LadderWithout256 == <<16, 32, 48, 64, 128>>

\* the ladder svg_to_other and other_to_other pass to other_to_icon
Ladder == <<16, 32, 48, 64, 128, 256>>

\* One per-size closure of the parallel map: resize_exact, to_rgba8, then
\* IcoFrame::as_png with the colour type of the SOURCE image.  The PNG encoder
\* asserts that the buffer (4 bytes per pixel after to_rgba8) has the length the
\* declared colour type implies, and IcoFrame accepts sides of 1..256 only.
FrameTask(img, sz) ==
    LET rgba == to_rgba8(resize_exact(img, sz, sz))
        bufLen == rgba.width * rgba.height * bytes_per_pixel(rgba.color)
        expected == sz * sz * bytes_per_pixel(img.color)
    IN  IF expected # bufLen THEN [res |-> "Panic", width |-> sz, height |-> sz]
        ELSE IF sz < 1 \/ sz > 256 THEN [res |-> "Err", width |-> sz, height |-> sz]
        ELSE [res |-> "Ok", width |-> rgba.width, height |-> rgba.height]

\* the frame of the task that ran on position i of the size list
FrameOf(done, i) == (CHOOSE k \in 1..Len(done) : done[k].idx = i)

\* the gather of first-come-first-served collection: frames as they finished
CollectAsFinished(done, n) == [i \in 1..n |-> done[i].frame]

\* par_iter().map().collect::<Vec<_>>(): position i of the result is the result
\* of the closure on position i of the input, whatever order the tasks ran in
CollectFrames(done, n) == [i \in 1..n |-> done[FrameOf(done, i)].frame]

\* IcoEncoder::encode_images: one directory entry per frame, in slice order
encode_images(fr) == [i \in 1..Len(fr) |-> DirEntry(fr[i].width, fr[i].height)]

\* the per-size tasks of one call, here finishing last size first
TasksOf(img, szs) ==
    [k \in 1..Len(szs) |->
        [idx |-> Len(szs) + 1 - k, frame |-> FrameTask(img, szs[Len(szs) + 1 - k])]]

other_to_icon(fsys, img, out, szs, fault) ==
    LET done == TasksOf(img, szs)
        n == Len(szs)
    IN  IF \E k \in 1..n : done[k].frame.res = "Panic"
        THEN Outcome("Panic", "as_png", fsys, FALSE, "icon", "Ico", img.color, 0, 0)
        ELSE IF \E k \in 1..n : done[k].frame.res = "Err"
        THEN Outcome("Err", "frame", fsys, FALSE, "icon", "Ico", img.color, 0, 0)
        ELSE IF fault = "create"
        THEN Outcome("Err", "create", fsys, FALSE, "icon", "Ico", img.color, 0, 0)
        ELSE IF fault = "encode"
        THEN Outcome("Err", "encode", Put(fsys, out, Truncated), TRUE,
                     "icon", "Ico", img.color, 0, 0)
        ELSE Outcome("Ok", "", Put(fsys, out, IconFile(MimeOf("Ico"),
                                     encode_images(CollectFrames(done, n)))),
                     TRUE, "icon", "Ico", img.color, 0, 0)

----------------------------------------------------------------------------
(* Icon codec, decode side: ico_to_other.                                  *)

\* IconDirEntry::width / height: the stored byte, 0 meaning 256
entry_width(e)  == IF e.wbyte = 0 THEN 256 ELSE e.wbyte
entry_height(e) == IF e.hbyte = 0 THEN 256 ELSE e.hbyte

\* the key a selection by width alone would use
entry_width_only(e) == entry_width(e)

\* the key of max_by_key; both factors are at most 256, so the u32 product never wraps
entry_area(e) == entry_width(e) * entry_height(e)

\* Iterator::max_by_key: the index of the last entry with the greatest key, 0 if none
RECURSIVE max_by_key(_, _)
max_by_key(dir, n) ==
    IF n = 0 THEN 0
    ELSE IF n = 1 THEN 1
    ELSE LET best == max_by_key(dir, n - 1)
         IN  IF entry_area(dir[n]) >= entry_area(dir[best]) THEN n ELSE best

IconMimes == {"image/x-icon", "image/vnd.microsoft.icon"}

\* vtracer::convert followed by File::create and write!
trace_and_write(fsys, img, out, fault) ==
    IF fault = "trace"
    THEN Outcome("Err", "trace", fsys, FALSE, "vectorizer", "Svg", img.color, 0, 0)
    ELSE IF fault = "create"
    THEN Outcome("Err", "create", fsys, FALSE, "vectorizer", "Svg", img.color, 0, 0)
    ELSE IF fault = "write"
    THEN Outcome("Err", "write", Put(fsys, out, Truncated), TRUE,
                 "vectorizer", "Svg", img.color, 0, 0)
    ELSE Outcome("Ok", "", Put(fsys, out, SvgFile(img.width, img.height)), TRUE,
                 "vectorizer", "Svg", img.color, img.width, img.height)

ico_to_other(fsys, in, out, fmt, fault) ==
    LET file == fsys[in]
        dir == file.entries
        best == max_by_key(dir, Len(dir))
    IN  IF ~file.exists
        THEN Outcome("Err", "open", fsys, FALSE, "none", fmt, "", 0, 0)
        ELSE IF file.mime \notin IconMimes \/ ~file.valid
        THEN Outcome("Err", "read", fsys, FALSE, "none", fmt, "", 0, 0)
        ELSE IF best = 0
        THEN Outcome("Err", "No images found in ICO file", fsys, FALSE, "none", fmt, "", 0, 0)
        ELSE IF ~dir[best].ok \/ fault = "decode"
        THEN Outcome("Err", "decode", fsys, FALSE, "none", fmt, "", 0, 0)
        ELSE LET ico_image == Image("Rgba8", entry_width(dir[best]), entry_height(dir[best]))
                 f == get_format(fmt)
                 fs1 == Put(fsys, out, Truncated)
             IN  IF f # NoFormat
                 THEN IF fault = "create"
                      THEN Outcome("Err", "create", fsys, FALSE, "none", fmt, "", 0, 0)
                      ELSE IF f = "Jpeg"
                      THEN [save_with_format(fs1, to_rgb8(ico_image), out, f, fault)
                                EXCEPT !.created = TRUE]
                      ELSE [save_with_format(fs1, ico_image, out, f, fault)
                                EXCEPT !.created = TRUE]
                 ELSE trace_and_write(fsys, ico_image, out, fault)

----------------------------------------------------------------------------
(* Raster codec and vector paths.                                          *)

Last(p) == p[Len(p)]

\* ImageFormat::from_extension, which image::open uses to pick the decoder
from_extension(p) ==
    IF ~has_extension(p) THEN NoFormat
    ELSE CASE Last(p) = "png"  -> "Png"
           [] Last(p) = "jpg"  -> "Jpeg"
           [] Last(p) = "jpeg" -> "Jpeg"
           [] Last(p) = "webp" -> "WebP"
           [] Last(p) = "tif"  -> "Tiff"
           [] Last(p) = "tiff" -> "Tiff"
           [] Last(p) = "bmp"  -> "Bmp"
           [] Last(p) = "ico"  -> "Ico"
           [] Last(p) = "avif" -> "Avif"
           [] OTHER            -> NoFormat

\* image::open: the decoder named by the extension must accept the bytes
image_open(fsys, in) ==
    LET file == fsys[in]
        byExt == from_extension(in)
        dir == file.entries
        best == max_by_key(dir, Len(dir))
    IN  IF ~file.exists \/ byExt = NoFormat
        THEN [ok |-> FALSE, img |-> Image("", 0, 0)]
        ELSE IF get_format_from_mime(file.mime) # byExt \/ ~file.valid
        THEN [ok |-> FALSE, img |-> Image("", 0, 0)]
        ELSE IF byExt = "Ico"
        THEN IF best = 0 \/ ~dir[best].ok
             THEN [ok |-> FALSE, img |-> Image("", 0, 0)]
             ELSE [ok |-> TRUE,
                   img |-> Image("Rgba8", entry_width(dir[best]), entry_height(dir[best]))]
        ELSE [ok |-> TRUE, img |-> Image(file.color, file.width, file.height)]

\* the canvas side image_to_other passes to svg_to_other
SvgSize == 256

svg_to_other(fsys, in, out, size, fmt, fault) ==
    LET file == fsys[in]
        image == Image("Rgba8", size, size)
    IN  IF ~file.exists
        THEN Outcome("Err", "open", fsys, FALSE, "none", fmt, "", 0, 0)
        ELSE IF file.mime # "image/svg+xml" \/ ~file.valid \/ fault = "decode"
        THEN Outcome("Err", "decode", fsys, FALSE, "none", fmt, "", 0, 0)
        ELSE IF size = 0
        THEN Outcome("Err", "Failed to create SVG Pixmap!", fsys, FALSE, "none", fmt, "", 0, 0)
        ELSE IF fmt = "Ico"
        THEN other_to_icon(fsys, image, out, Ladder, fault)
        ELSE IF fmt = "Jpeg"
        THEN save_with_format(fsys, to_rgb8(image), out, get_format(fmt), fault)
        ELSE IF get_format(fmt) = NoFormat
        THEN Outcome("Panic", "No supported image formats", fsys, FALSE, "none", fmt, "", 0, 0)
        ELSE save_with_format(fsys, image, out, get_format(fmt), fault)

\* vtracer::convert_image_to_svg: open the input, trace, write the document
other_to_svg(fsys, in, out, fault) ==
    LET opened == image_open(fsys, in)
    IN  IF ~opened.ok
        THEN Outcome("Err", "Failed to convert to svg", fsys, FALSE, "vectorizer", "Svg", "", 0, 0)
        ELSE trace_and_write(fsys, to_rgba8(opened.img), out, fault)

\* the JPEG arm of other_to_other without the conversion to three channels
other_to_other_jpeg_as_is(img) == img

\* the JPEG arm of other_to_other: image.to_rgb8()
other_to_other_jpeg(img) == to_rgb8(img)

other_to_other(fsys, in, out, fmt, fault) ==
    LET opened == image_open(fsys, in)
        format == get_format(fmt)
    IN  IF ~opened.ok
        THEN Outcome("Err", "open", fsys, FALSE, "none", fmt, "", 0, 0)
        ELSE IF format # NoFormat
        THEN IF format = "Jpeg"
             THEN save_with_format(fsys, other_to_other_jpeg(opened.img), out, format, fault)
             ELSE save_with_format(fsys, opened.img, out, format, fault)
        ELSE IF fmt = "Ico"
        THEN other_to_icon(fsys, opened.img, out, Ladder, fault)
        ELSE IF fmt = "Svg"
        THEN other_to_svg(fsys, in, out, fault)
        ELSE Outcome("Ok", "", fsys, FALSE, "none", fmt, "", 0, 0)

----------------------------------------------------------------------------
(* The disks a session can start on.                                       *)

\* two shapes of equal area and a larger one
EntryShapes == {DirEntry(32, 16), DirEntry(16, 32), DirEntry(16, 48)}

\* every icon directory of at most MaxEntries entries
IcoDirs == UNION {[1..n -> EntryShapes] : n \in 0..MaxEntries}

FixturePaths ==
    {<<"a", "png">>, <<"a", "jpg">>, <<"b", "tif">>, <<"b", "avif">>,
     <<"c", "ico">>, <<"c", "svg">>, <<"d", "png">>, <<"g", "webp">>,
     <<"e", "bmp">>, <<"f", "bmp">>, <<"r", "png">>, <<"r", "ico">>,
     <<"notes", "txt">>, <<"", "svg">>,
     <<"i", "ico">>}

Exts == {get_ext(f) : f \in ImageFormatExt}

Paths == FixturePaths \cup {with_extension(p, e) : p \in FixturePaths, e \in Exts}

EmptyDisk == [p \in Paths |-> NoFile]

\* the disk holding exactly the files of the function d
Disk(d) == [p \in Paths |-> IF p \in DOMAIN d THEN d[p] ELSE NoFile]

\* a.jpg and a.png share their stem
DiskRaster ==
    Disk((<<"a", "png">> :> Raster("image/png", "Rgba8", 64, 64)) @@
         (<<"a", "jpg">> :> Raster("image/jpeg", "Rgb8", 48, 32)))

DiskModern ==
    Disk((<<"b", "tif">>  :> Raster("image/tiff", "L8", 5, 5)) @@
         (<<"b", "avif">> :> Raster("image/avif", "Rgb8", 8, 8)))

DiskIcon ==
    Disk((<<"c", "ico">> :> IconFile("image/vnd.microsoft.icon",
                               <<DirEntry(16, 16), DirEntry(32, 32), DirEntry(64, 64)>>)) @@
         (<<"c", "svg">> :> SvgFile(100, 50)))

\* a 64x64 PNG next to an icon of the same stem that holds one small frame
DiskRoundTrip ==
    Disk((<<"r", "png">> :> Raster("image/png", "Rgba8", 64, 64)) @@
         (<<"r", "ico">> :> IconFile("image/x-icon", <<DirEntry(48, 48)>>)))

\* d.png holds an icon container: content sniffing and the extension disagree
DiskMismatch ==
    Disk((<<"d", "png">>  :> IconFile("image/x-icon", <<DirEntry(48, 48)>>)) @@
         (<<"g", "webp">> :> Raster("image/webp", "Rgb8", 10, 10)))

\* a good file and a corrupted one
DiskCorrupt ==
    Disk((<<"e", "bmp">>  :> Raster("image/bmp", "Rgba8", 300, 200)) @@
         (<<"f", "bmp">>  :> Corrupt("image/bmp")))

\* a file that is no image, and a vector document whose name is only a dot and "svg"
DiskOdd ==
    Disk((<<"notes", "txt">> :> Corrupt("text/plain")) @@
         (<<"", "svg">>      :> SvgFile(10, 20)))

DiskIcoDir(dir) == Disk(<<"i", "ico">> :> IconFile("image/x-icon", dir))

Disks == {DiskRaster, DiskModern, DiskIcon, DiskRoundTrip, DiskMismatch, DiskCorrupt, DiskOdd}
            \cup {DiskIcoDir(dir) : dir \in IcoDirs}

----------------------------------------------------------------------------
(* App state and the handlers of App::update that fill the two maps.      *)

NoEntry == [present |-> FALSE, format |-> NoFormat, check |-> FALSE]
Entry(f, c) == [present |-> TRUE, format |-> f, check |-> c]

NoPath == <<"?">>

NoPixmap == [width |-> 0, height |-> 0, data |-> <<>>]

PixOff ==
    /\ canvas = 0
    /\ pixmap = NoPixmap
    /\ buffer = <<>>
    /\ written = <<>>
    /\ pixPc = "off"

IconOff ==
    /\ sizes = <<>>
    /\ srcColor = ""
    /\ taskDone = <<>>
    /\ frames = <<>>
    /\ container = <<>>
    /\ icoPc = "off"

Init ==
    /\ fs \in Disks
    /\ images = [p \in Paths |-> NoEntry]
    /\ convert_img_format = get_all
    /\ pc = "idle"
    /\ imgTodo = {}
    /\ cur = NoPath
    /\ fmtTodo = {}
    /\ faults = 0
    /\ executed = EmptyBag
    /\ results = {}
    /\ logged = {}
    /\ IconOff
    /\ PixOff

\* tika_magic::from_filepath: the MIME type of the bytes, "" for None
from_filepath(fsys, p) == IF fsys[p].exists THEN fsys[p].mime ELSE ""

\* the file dialog and the folder walk hand over files that exist

\* App::check_image, reached from FileSelected, DropFile and the folder walk
check_image(p) ==
    /\ pc = "idle"
    /\ fs[p].exists
    /\ LET mime == from_filepath(fs, p)
           format == get_format_from_mime(mime)
       IN  IF mime # "" /\ format # NoFormat
           THEN images' = [images EXCEPT ![p] = Entry(format, FALSE)]
           ELSE UNCHANGED images
    /\ UNCHANGED <<fs, convert_img_format, pc, imgTodo, cur, fmtTodo,
                   faults, histVars, iconVars, pixVars>>

\* the view offers a checkbox for the keys of the map only
ToggleImageItem(key) ==
    /\ pc = "idle"
    /\ images[key].present
    /\ images' = [images EXCEPT ![key].check = ~images[key].check]
    /\ UNCHANGED <<fs, convert_img_format, pc, imgTodo, cur, fmtTodo,
                   faults, histVars, iconVars, pixVars>>

EnabledTargets == {f \in ImageFormatExt : convert_img_format[f]}

\* the view sends the flag it displays, the handler stores its negation
ToggleImageFormatItem(image_format) ==
    /\ pc = "idle"
    /\ LET should_convert == convert_img_format[image_format]
       IN  /\ should_convert \/ Cardinality(EnabledTargets) < MaxTargets
           /\ convert_img_format' = [convert_img_format EXCEPT ![image_format] = ~should_convert]
    /\ UNCHANGED <<fs, images, pc, imgTodo, cur, fmtTodo,
                   faults, histVars, iconVars, pixVars>>

----------------------------------------------------------------------------
(* The dispatcher: image_to_other, one step per job.                       *)

Selected == {p \in Paths : images[p].present /\ images[p].check}

\* the inner filter_map: enabled formats other than the source's own
Accepted(p) == {f \in ImageFormatExt : convert_img_format[f] /\ images[p].format # f}

\* Message::ConvertImage: enter image_to_other on the App's two maps
ConvertImage ==
    /\ pc = "idle"
    /\ pc' = "batch"
    /\ imgTodo' = Selected
    /\ cur' = NoPath
    /\ fmtTodo' = {}
    /\ UNCHANGED <<fs, appVars, faults, histVars, iconVars, pixVars>>

\* the outer iterator yields the next checked entry, in the map's arbitrary order
NextImage ==
    /\ pc = "batch"
    /\ fmtTodo = {}
    /\ \E p \in imgTodo :
        /\ cur' = p
        /\ imgTodo' = imgTodo \ {p}
        /\ fmtTodo' = Accepted(p)
    /\ UNCHANGED <<fs, appVars, pc, faults, histVars, iconVars, pixVars>>

FaultChoices == IF faults < MaxFaults THEN FaultSteps \cup {NoFault} ELSE {NoFault}

\* control after a job: is_ok() is ignored, a panic unwinds out of image_to_other
AfterJob(res) == IF res = "Panic" THEN "panicked" ELSE "batch"

\* bookkeeping shared by the three arms; the arm's inspect_err prints on Err
Finish(f, out, route, fault, o) ==
    /\ fault # NoFault => (o.res = "Err" /\ o.detail = fault)
    /\ fs' = o.fs
    /\ faults' = faults + (IF fault = NoFault THEN 0 ELSE 1)
    /\ executed' = executed (+) SetToBag({<<cur, f>>})
    /\ results' = results \cup
          {[path |-> cur, fmt |-> f, route |-> route, out |-> out, res |-> o.res,
            detail |-> o.detail, created |-> o.created, enc |-> o.enc,
            encFmt |-> o.encFmt, encColor |-> o.encColor,
            width |-> o.width, height |-> o.height, fault |-> fault,
            srcEntries |-> fs[cur].entries]}
    /\ logged' = IF o.res = "Err"
                 THEN logged \cup {[path |-> cur, fmt |-> f, detail |-> o.detail]}
                 ELSE logged
    /\ fmtTodo' = fmtTodo \ {f}
    /\ pc' = AfterJob(o.res)
    /\ UNCHANGED <<appVars, imgTodo, cur, iconVars, pixVars>>

\* arm ImageFormatExt::Svg
SvgJob ==
    /\ pc = "batch"
    /\ cur # NoPath
    /\ images[cur].format = "Svg"
    /\ \E f \in fmtTodo, fault \in FaultChoices :
        LET output_path == with_extension(cur, get_ext(f))
        IN  Finish(f, output_path, "svg_to_other", fault,
                   svg_to_other(fs, cur, output_path, SvgSize, f, fault))

\* arm ImageFormatExt::Ico
IcoJob ==
    /\ pc = "batch"
    /\ cur # NoPath
    /\ images[cur].format = "Ico"
    /\ \E f \in fmtTodo, fault \in FaultChoices :
        LET output_path == with_extension(cur, get_ext(f))
        IN  Finish(f, output_path, "ico_to_other", fault,
                   ico_to_other(fs, cur, output_path, f, fault))

\* arm _
OtherJob ==
    /\ pc = "batch"
    /\ cur # NoPath
    /\ images[cur].format \notin {"Svg", "Ico"}
    /\ \E f \in fmtTodo, fault \in FaultChoices :
        LET output_path == with_extension(cur, get_ext(f))
        IN  Finish(f, output_path, "other_to_other", fault,
                   other_to_other(fs, cur, output_path, f, fault))

\* both iterators are exhausted: image_to_other returns to App::update
Return ==
    /\ pc = "batch"
    /\ fmtTodo = {}
    /\ imgTodo = {}
    /\ pc' = "done"
    /\ UNCHANGED <<fs, appVars, imgTodo, cur, fmtTodo, faults, histVars, iconVars, pixVars>>

Next ==
    \/ \E p \in Paths : check_image(p)
    \/ \E key \in Paths : ToggleImageItem(key)
    \/ \E f \in ImageFormatExt : ToggleImageFormatItem(f)
    \/ ConvertImage
    \/ NextImage
    \/ SvgJob
    \/ IcoJob
    \/ OtherJob
    \/ Return

Spec == Init /\ [][Next]_vars

----------------------------------------------------------------------------
(* other_to_icon with its parallel map unfolded: the per-size closures run *)
(* on the worker threads and finish in any order.                          *)

SizeChoices == {16, 256, 300}

SizeLists == {Ladder} \cup UNION {[1..n -> SizeChoices] : n \in 0..MaxSizes}

Colors == {"L8", "Rgb8", "Rgba8"}

IdleApp ==
    /\ fs = EmptyDisk
    /\ images = [p \in Paths |-> NoEntry]
    /\ convert_img_format = get_all
    /\ pc = "idle"
    /\ imgTodo = {}
    /\ cur = NoPath
    /\ fmtTodo = {}
    /\ faults = 0
    /\ executed = EmptyBag
    /\ results = {}
    /\ logged = {}

mainVars == <<fs, appVars, pc, imgTodo, cur, fmtTodo, faults, histVars>>

InitIcon ==
    /\ IdleApp
    /\ sizes \in SizeLists
    /\ srcColor \in Colors
    /\ taskDone = <<>>
    /\ frames = <<>>
    /\ container = <<>>
    /\ icoPc = "map"
    /\ PixOff

Finished == {taskDone[k].idx : k \in 1..Len(taskDone)}

\* the closure for position i of the size list finishes
FrameDone(i) ==
    /\ icoPc = "map"
    /\ i \notin Finished
    /\ LET frame == FrameTask(Image(srcColor, 64, 64), sizes[i])
       IN  /\ taskDone' = Append(taskDone, [idx |-> i, frame |-> frame])
           /\ icoPc' = IF frame.res = "Panic" THEN "panicked" ELSE "map"
    /\ UNCHANGED <<mainVars, pixVars, sizes, srcColor, frames, container>>

\* collect::<Result<Vec<IcoFrame>>>() with every closure Ok
Collect ==
    /\ icoPc = "map"
    /\ Finished = 1..Len(sizes)
    /\ \A k \in 1..Len(taskDone) : taskDone[k].frame.res = "Ok"
    /\ frames' = CollectFrames(taskDone, Len(sizes))
    /\ icoPc' = "collected"
    /\ UNCHANGED <<mainVars, pixVars, sizes, srcColor, taskDone, container>>

\* collect::<Result<..>>() stops at an Err and `?` returns it
CollectErr ==
    /\ icoPc = "map"
    /\ \E k \in 1..Len(taskDone) : taskDone[k].frame.res = "Err"
    /\ icoPc' = "failed"
    /\ UNCHANGED <<mainVars, pixVars, sizes, srcColor, taskDone, frames, container>>

\* File::create and IcoEncoder::encode_images succeed
Encode ==
    /\ icoPc = "collected"
    /\ container' = encode_images(frames)
    /\ icoPc' = "written"
    /\ UNCHANGED <<mainVars, pixVars, sizes, srcColor, taskDone, frames>>

\* File::create or IcoEncoder::encode_images returns an error
EncodeFails ==
    /\ icoPc = "collected"
    /\ icoPc' = "failed"
    /\ UNCHANGED <<mainVars, pixVars, sizes, srcColor, taskDone, frames, container>>

NextIcon ==
    \/ \E i \in 1..Len(sizes) : FrameDone(i)
    \/ Collect
    \/ CollectErr
    \/ Encode
    \/ EncodeFails

SpecIcon == InitIcon /\ [][NextIcon]_vars

----------------------------------------------------------------------------
(* The pixel loop of svg_to_other, unfolded: the canvas is allocated and   *)
(* rendered, then par_chunks_mut(4).enumerate().for_each runs its closure  *)
(* once per chunk, the chunks in any order.                                *)

\* tiny_skia::PremultipliedColorU8: every colour channel is at most alpha
PremultipliedColorU8(r, g, b, a) == [red |-> r, green |-> g, blue |-> b, alpha |-> a]

TRANSPARENT == PremultipliedColorU8(0, 0, 0, 0)

\* what resvg leaves in a surface pixel: nothing, an opaque paint, and
\* paints at opacity 128/255 (straight red 255, and straight 128/64/0)
Palette == << TRANSPARENT,
              PremultipliedColorU8(255, 0, 0, 255),
              PremultipliedColorU8(128, 0, 0, 128),
              PremultipliedColorU8(64, 32, 0, 128) >>

CanvasSizes == 0..MaxCanvas

\* Pixmap::new(size, size): None for a zero side
Pixmap_new(w, h) ==
    IF w = 0 \/ h = 0 THEN NoPixmap
    ELSE [width |-> w, height |-> h, data |-> [k \in 1..(w * h) |-> TRANSPARENT]]

\* the surfaces resvg::render may leave in a w x h pixmap: one paint all
\* over, or the paints of the palette one after the other in row order
Rendered(pm) ==
    { [pm EXCEPT !.data = [k \in 1..Len(pm.data) |->
                              Palette[(((k - 1) * stride + shift) % Len(Palette)) + 1]]] :
        stride \in {0, 1}, shift \in 0..(Len(Palette) - 1) }

\* Pixmap::pixel(x, y).unwrap_or(TRANSPARENT): row-major lookup, None past the data
pixel(pm, x, y) ==
    LET idx == pm.width * y + x
    IN  IF idx < Len(pm.data) THEN pm.data[idx + 1] ELSE TRANSPARENT

\* RgbaImage::new(size, size): size*size*4 zero bytes
RgbaImage_new(w, h) == [k \in 1..(w * h * 4) |-> 0]

\* the closure of the for_each: chunk i of the buffer gets the four channel
\* values of the surface pixel at (i % size, i / size) as they are stored
fill_chunk(buf, pm, size, i) ==
    LET x == i % size
        y == i \div size
        px == pixel(pm, x, y)
    IN  [buf EXCEPT ![4 * i + 1] = px.red,
                    ![4 * i + 2] = px.green,
                    ![4 * i + 3] = px.blue,
                    ![4 * i + 4] = px.alpha]

InitPixels ==
    /\ IdleApp
    /\ IconOff
    /\ canvas \in CanvasSizes
    /\ pixmap = NoPixmap
    /\ buffer = <<>>
    /\ written = <<>>
    /\ pixPc = "new"

\* chunk indices of the buffer, as enumerate() numbers them
Chunks == 0..((Len(buffer) \div 4) - 1)

\* Pixmap::new returns None and `?` returns "Failed to create SVG Pixmap!"
PixmapFails ==
    /\ pixPc = "new"
    /\ Pixmap_new(canvas, canvas) = NoPixmap
    /\ pixPc' = "failed"
    /\ UNCHANGED <<mainVars, iconVars, canvas, pixmap, buffer, written>>

\* Pixmap::new, resvg::render and RgbaImage::new
Render ==
    /\ pixPc = "new"
    /\ Pixmap_new(canvas, canvas) # NoPixmap
    /\ pixmap' \in Rendered(Pixmap_new(canvas, canvas))
    /\ buffer' = RgbaImage_new(canvas, canvas)
    /\ written' = [k \in 1..(canvas * canvas) |-> 0]
    /\ pixPc' = "fill"
    /\ UNCHANGED <<mainVars, iconVars, canvas>>

\* the closure runs for chunk i
FillChunk(i) ==
    /\ pixPc = "fill"
    /\ written[i + 1] = 0
    /\ buffer' = fill_chunk(buffer, pixmap, canvas, i)
    /\ written' = [written EXCEPT ![i + 1] = @ + 1]
    /\ UNCHANGED <<mainVars, iconVars, canvas, pixmap, pixPc>>

\* for_each returns once every closure has run
FillDone ==
    /\ pixPc = "fill"
    /\ \A i \in Chunks : written[i + 1] > 0
    /\ pixPc' = "filled"
    /\ UNCHANGED <<mainVars, iconVars, canvas, pixmap, buffer, written>>

NextPixels ==
    \/ PixmapFails
    \/ Render
    \/ \E i \in Chunks : FillChunk(i)
    \/ FillDone

SpecPixels == InitPixels /\ [][NextPixels]_vars

----------------------------------------------------------------------------
(* Claims about the dispatcher and the codec paths, checked under Spec.    *)

BatchEnded == pc \in {"done", "panicked"}

Runs(p, f) == CopiesIn(<<p, f>>, executed)

IsAccepted(p, f) ==
    images[p].present /\ images[p].check /\ convert_img_format[f] /\ f # images[p].format

(* C1: once image_to_other has ended, a job ran for the pair (path, format) *)
(* exactly once if the path is checked, the format is enabled and differs  *)
(* from the path's detected format, and not at all otherwise; a same-format *)
(* pair leaves no result and no log line.                                  *)
JobsAreTheAcceptedPairs ==
    /\ \A p \in Paths, f \in ImageFormatExt :
          /\ Runs(p, f) <= 1
          /\ Runs(p, f) = 1 => IsAccepted(p, f)
          /\ (BatchEnded /\ IsAccepted(p, f)) => Runs(p, f) = 1
    /\ \A p \in Paths :
          images[p].present =>
             /\ ~\E r \in results : r.path = p /\ r.fmt = images[p].format
             /\ ~\E l \in logged : l.path = p /\ l.fmt = images[p].format

(* C2: a failing job is logged with its source path, target format and     *)
(* error detail, the batch never ends otherwise than by returning, and at  *)
(* its end every accepted job was attempted.                               *)
BatchNeverAborted ==
    /\ \A r \in results :
          r.res # "Ok" => [path |-> r.path, fmt |-> r.fmt, detail |-> r.detail] \in logged
    /\ pc # "panicked"
    /\ BatchEnded => \A p \in Paths, f \in ImageFormatExt : IsAccepted(p, f) => Runs(p, f) = 1

(* C3: the output path of a job is never the job's own source path and     *)
(* never the source path of another selected file.                         *)
OutputIsNoInput ==
    \A r \in results : r.out # r.path /\ r.out \notin Selected

(* C4: two distinct jobs of one batch never have the same destination path. *)
DestinationsDisjoint ==
    \A r1, r2 \in results :
        (r1.path # r2.path \/ r1.fmt # r2.fmt) => r1.out # r2.out

(* C5: a job that returned an error has not created a file at its output   *)
(* path.                                                                   *)
FailedJobLeavesNoFile ==
    \A r \in results : r.res = "Err" => ~r.created

(* C6, checked under SpecIcon: whatever order the per-size tasks of other_to_icon finish in, the   *)
(* frame list handed to the container encoder is as long as the size list  *)
(* and its Nth frame has the Nth requested size; the container's Nth entry *)
(* reads back with that size.                                              *)
IconOrderPreserved ==
    /\ icoPc \in {"collected", "written"} =>
          /\ Len(frames) = Len(sizes)
          /\ \A n \in 1..Len(sizes) :
                frames[n].width = sizes[n] /\ frames[n].height = sizes[n]
    /\ icoPc = "written" =>
          /\ Len(container) = Len(sizes)
          /\ \A n \in 1..Len(sizes) :
                entry_width(container[n]) = sizes[n] /\ entry_height(container[n]) = sizes[n]

\* the default ladder was encoded although the last size finished first
IconOrderWitness ==
    /\ icoPc = "written"
    /\ sizes = Ladder
    /\ taskDone[1].idx = 6
    /\ taskDone[6].idx = 1

(* C7: whenever a job hands an image to the JPEG encoder the image has     *)
(* three channels, the encoder fails only when the environment makes it    *)
(* fail, and a JPEG the job wrote has three channels.                      *)
JpegGetsThreeChannels ==
    \A r \in results :
        (r.enc = "raster" /\ r.encFmt = "Jpeg") =>
            /\ channel_count(r.encColor) = 3
            /\ r.res # "Panic"
            /\ r.res = "Err" => r.fault # NoFault
            /\ (r.res = "Ok" /\ fs[r.out].mime = "image/jpeg" /\ fs[r.out].valid)
                  => channel_count(fs[r.out].color) = 3

\* the icon and the vector path both handed their RGBA image to JPEG as RGB
JpegWitness ==
    /\ \E r \in results : /\ r.route = "ico_to_other" /\ r.fmt = "Jpeg" /\ r.res = "Ok"
                            /\ r.encColor = "Rgb8"
    /\ \E r \in results : /\ r.route = "svg_to_other" /\ r.fmt = "Jpeg" /\ r.res = "Ok"
                            /\ fs[r.out] = Raster("image/jpeg", "Rgb8", 256, 256)

(* C8: ico_to_other returns an error and creates nothing when the icon     *)
(* directory has no entries, and an image it decoded has an area at least  *)
(* that of every entry of the directory.                                   *)
IconDecodeTakesMaxArea ==
    \A r \in results :
        r.route = "ico_to_other" =>
            /\ r.srcEntries = <<>> => (r.res = "Err" /\ ~r.created)
            /\ r.res = "Ok" =>
                  \A n \in 1..Len(r.srcEntries) :
                      r.width * r.height >=
                         (IF r.srcEntries[n].wbyte = 0 THEN 256 ELSE r.srcEntries[n].wbyte)
                       * (IF r.srcEntries[n].hbyte = 0 THEN 256 ELSE r.srcEntries[n].hbyte)

\* the directory 16x16, 32x32, 64x64 was decoded to its 64x64 frame
IconDecodeWitness ==
    \E r \in results :
        /\ r.path = <<"c", "ico">> /\ r.fmt = "Png" /\ r.res = "Ok"
        /\ Len(r.srcEntries) = 3
        /\ r.width = 64 /\ r.height = 64

EncoderFor(f) == IF f = "Ico" THEN "icon" ELSE IF f = "Svg" THEN "vectorizer" ELSE "raster"

RouteFor(f) ==
    IF f = "Svg" THEN "svg_to_other" ELSE IF f = "Ico" THEN "ico_to_other" ELSE "other_to_other"

(* C10: every job is routed by its source format, a job that reached a     *)
(* final encode step reached the one that belongs to its target, a job     *)
(* that returned Ok did reach one, and no job hit the                      *)
(* "No supported image formats" panic.                                     *)
RoutingIsTotal ==
    \A r \in results :
        /\ r.route = RouteFor(images[r.path].format)
        /\ r.enc # "none" => r.enc = EncoderFor(r.fmt)
        /\ r.res = "Ok" => r.enc = EncoderFor(r.fmt)
        /\ r.detail # "No supported image formats"

\* a vector source reached the icon encoder and a raster source the vectorizer
RoutingWitness ==
    /\ \E r \in results : r.route = "svg_to_other" /\ r.fmt = "Ico" /\ r.res = "Ok"
    /\ \E r \in results : r.route = "svg_to_other" /\ r.fmt = "Avif" /\ r.res = "Ok"

----------------------------------------------------------------------------
(* The claim about the pixel loop, checked under SpecPixels.               *)

\* a channel of a straight-alpha colour: c * 255 / alpha rounded to nearest,
\* 0 where alpha is 0
straight(c, a) ==
    IF a = 0 THEN 0
    ELSE IF a = 255 THEN c
    ELSE LET q == (2 * c * 255 + a) \div (2 * a) IN IF q > 255 THEN 255 ELSE q

\* the straight-alpha bytes of a surface pixel
demultiply(px) ==
    << straight(px.red, px.alpha), straight(px.green, px.alpha),
       straight(px.blue, px.alpha), px.alpha >>

\* the four bytes of chunk i
ChunkOf(buf, i) == << buf[4 * i + 1], buf[4 * i + 2], buf[4 * i + 3], buf[4 * i + 4] >>

\* the surface has a pixel at (x, y)
OnSurface(x, y) == x < pixmap.width /\ y < pixmap.height

(* C11: the buffer of the vector rasterizer has size*size*4 bytes, every   *)
(* chunk index is written exactly once, and the four bytes written at      *)
(* index i are the un-premultiplied colour and the alpha of the surface    *)
(* pixel at (i mod size, i div size), or (0,0,0,0) off the surface.        *)
PixelsAreStraightAlpha ==
    pixPc \in {"fill", "filled"} =>
        /\ Len(buffer) = canvas * canvas * 4
        /\ \A i \in 0..(canvas * canvas - 1) :
            LET x == i % canvas
                y == i \div canvas
            IN  /\ written[i + 1] <= 1
                /\ pixPc = "filled" => written[i + 1] = 1
                /\ written[i + 1] = 1 =>
                      ChunkOf(buffer, i) =
                          IF OnSurface(x, y)
                          THEN demultiply(pixmap.data[pixmap.width * y + x + 1])
                          ELSE <<0, 0, 0, 0>>

====
